---- MODULE Spec2Model ----
(***************************************************************************)
(* A model of ServerMonitorPlugin (src/main.py): the configuration and its *)
(* digest, the reconnect sequence run after a configuration change, the    *)
(* status cache, the daily report loop and the health check loop.          *)
(*                                                                         *)
(* The plugin runs on one asyncio event loop.  A step of the model is what *)
(* one task does between two suspension points (an await that really       *)
(* suspends: a sleep, a lock wait, remote I/O, a message send).  Time is   *)
(* in whole seconds; `now` is the wall clock, counted from the midnight    *)
(* before the plugin was constructed.                                      *)
(***************************************************************************)
EXTENDS Integers, Sequences, FiniteSets, TLC

(* ---------------------------------------------------------------------- *)
(* Bounds of the model                                                     *)
(* ---------------------------------------------------------------------- *)
MaxSets == 2
MaxCmds == 2
MaxTicks == 1
MaxDays == 2
MaxPolls == 11
MaxDrops == 1

(* ---------------------------------------------------------------------- *)
(* Program constants                                                       *)
(* ---------------------------------------------------------------------- *)
DaySeconds == 86400
HourSeconds == 3600
MinuteSeconds == 60
MaxAttempts == 4
RetryBudget == 120
RetryDelay == 15
ConnectTimeout == 10
BadTimeDelay == 3600
HealthInterval == 300
GraceSeconds == 1200
CacheTTL == 60

NoTime == -1
NoStatus == "None"

(* ---------------------------------------------------------------------- *)
(* Configuration values                                                    *)
(* ---------------------------------------------------------------------- *)
Hosts == {"h1", "h2"}
PortArgs == {"2222", "ssh"}
Users == {"u2"}
Passwords == {"p2"}
\* report_time strings, as <<hours field, minutes field>> of "HH:MM";
\* <<25, 0>> stands for a string strptime("%H:%M") rejects.
ReportTimes == {<<9, 0>>, <<0, 0>>, <<25, 0>>}

\* int(value) of server_set for the port key: 0 stands for ValueError.
ParsePort(s) ==
  CASE s = "22" -> 22
    [] s = "2222" -> 2222
    [] OTHER -> 0

\* The keys server_set accepts (valid_keys), with the values tried for each.
\* report_target and alert_target are written like report_time (outside the
\* digest) and are left out.
SetArgs ==
  ({"ip"} \X Hosts) \cup ({"port"} \X PortArgs) \cup ({"user"} \X Users)
    \cup ({"pwd"} \X Passwords) \cup ({"key"} \X {"pem"})
    \cup ({"report_time"} \X ReportTimes)

\* _digest_config: json.dumps of the list of the five connection fields.
\* json.dumps is injective on these values, so the list itself stands for it.
DigestOf(cfg) ==
  <<cfg.server_ip, cfg.ssh_port, cfg.ssh_username, cfg.ssh_password,
    cfg.ssh_key_path>>

(* ---------------------------------------------------------------------- *)
(* Wall clock                                                              *)
(* ---------------------------------------------------------------------- *)
Hour(t) == (t % DaySeconds) \div HourSeconds
Minute(t) == ((t % DaySeconds) % HourSeconds) \div MinuteSeconds
Second(t) == (t % DaySeconds) % MinuteSeconds

\* datetime.strptime(report_time, "%H:%M") raises ValueError or not
ValidTime(rt) == rt[1] \in 0..23 /\ rt[2] \in 0..59

VARIABLES
  now,                    \* datetime.now(), in seconds
  ticks,                  \* free clock steps taken (bounded)
  started,                \* the clock when the plugin was constructed
  config,                 \* self.config
  current_config_digest,  \* self._current_config_digest
  sets,                   \* server_set calls suspended at their yield
  nSet,                   \* server_set calls that wrote the configuration
  nSched,                 \* _on_config_changed tasks created
  nCmd,                   \* other commands handled
  connected,              \* self.connected
  last_success,           \* self.last_success (NoTime: None)
  alertsSinceSuccess,     \* alerts sent since connected was last set True
  lockHolder,             \* task holding self._reconnect_lock (0: free)
  lockWaiters,            \* tasks waiting for it, in order
  rc,                     \* the _on_config_changed tasks
  conns,                  \* every connection asyncssh.connect returned
  ssh,                    \* self._ssh: an index of conns (0: None)
  drops,                  \* connections closed by the network (bounded)
  cache,                  \* self.cache
  roundTrips,             \* remote commands run by _fetch_status
  sched,                  \* schedule_daily_report
  pushes,                 \* reports pushed by schedule_daily_report
  hc,                     \* schedule_health_check
  polls,                  \* health polls done
  alerts,                 \* alert messages sent
  sampled                 \* a health sample has been non-null

vClock == <<now, ticks, started>>
vConfig == <<config, current_config_digest, sets, nSet, nSched>>
vHealth == <<connected, last_success, alertsSinceSuccess>>
vLock == <<lockHolder, lockWaiters>>
vConn == <<conns, ssh, drops>>
vCache == <<cache, roundTrips, nCmd>>
vSched == <<sched, pushes>>
vHC == <<hc, polls, alerts, sampled>>
vars == <<vClock, vConfig, vHealth, vLock, rc, vConn, vCache, vSched, vHC>>

\* The success recorded without its time.
SuccessStampSkipped(ls, t) == ls

\* `self.last_success = datetime.now()`, in _connect_with_retry and in
\* schedule_health_check.
SuccessStamp(ls, t) == t

(* ---------------------------------------------------------------------- *)
(* Status cache and status fetch                                           *)
(* ---------------------------------------------------------------------- *)
CacheKeys == Hosts \cup {""}
NoEntry == [has |-> FALSE, ts |-> NoTime, status |-> NoStatus]

\* _fetch_status.  `async with self._ssh_conn() as conn` hands the coroutine
\* object of _ssh_conn, not awaited, to `async with`; a coroutine has no
\* __aenter__/__aexit__, so the statement raises TypeError (AttributeError
\* before Python 3.11) before _ssh_conn runs a single line.  `except
\* Exception: pass` swallows it and the function returns None: no connection
\* is opened and no remote command is run.  Nothing in it suspends.
FetchStatus == [status |-> NoStatus, trips |-> 0]

\* `ip in self.cache and (now - self.cache[ip]["ts"]) < 60`
CacheFresh(c, ip, t) == c[ip].has /\ (t - c[ip].ts) < CacheTTL

\* get_server_status at time t: the status returned, the cache afterwards,
\* the remote commands run, and whether the cache served it.
GetServerStatus(c, cfg, t) ==
  LET ip == cfg.server_ip
      fresh == FetchStatus
  IN  IF CacheFresh(c, ip, t)
      THEN [status |-> c[ip].status, cache |-> c, trips |-> 0, hit |-> TRUE]
      ELSE [status |-> fresh.status,
            cache |-> IF fresh.status # NoStatus
                      THEN [c EXCEPT ![ip] =
                              [has |-> TRUE, ts |-> t, status |-> fresh.status]]
                      ELSE c,
            trips |-> fresh.trips, hit |-> FALSE]

\* server_status: one get_server_status call and a reply.
ServerStatus ==
  /\ nCmd < MaxCmds
  /\ LET r == GetServerStatus(cache, config, now)
     IN  /\ cache' = r.cache
         /\ roundTrips' = roundTrips + r.trips
  /\ nCmd' = nCmd + 1
  /\ UNCHANGED <<vClock, vConfig, vHealth, vLock, rc, vConn, vSched, vHC>>

\* server_push -> _push_status(event.unified_msg_origin)
ServerPush ==
  /\ nCmd < MaxCmds
  /\ LET r == GetServerStatus(cache, config, now)
     IN  /\ cache' = r.cache
         /\ roundTrips' = roundTrips + r.trips
  /\ nCmd' = nCmd + 1
  /\ UNCHANGED <<vClock, vConfig, vHealth, vLock, rc, vConn, vSched, vHC>>

(* ---------------------------------------------------------------------- *)
(* schedule_daily_report                                                   *)
(* ---------------------------------------------------------------------- *)
SchedOff ==
  [pc |-> "off", wake |-> 0, push |-> FALSE, delay |-> 0, target |-> <<0, 0>>]

\* One pass of the loop body from `now = datetime.now()` to the sleep it
\* starts.  now.time() >= target_time compares (hour, minute, second) with
\* (HH, MM, 0), which is the comparison of the seconds since midnight.
NextSleep(t, cfg) ==
  LET rt == cfg.report_time
      nowsecs == Hour(t) * HourSeconds + Minute(t) * MinuteSeconds + Second(t)
      tsecs == rt[1] * HourSeconds + rt[2] * MinuteSeconds
      delay == IF ~ValidTime(rt) THEN BadTimeDelay
               ELSE IF nowsecs >= tsecs THEN DaySeconds - nowsecs
               ELSE tsecs - nowsecs
  IN  [pc |-> "sleep", wake |-> t + delay, push |-> ValidTime(rt),
       delay |-> delay, target |-> rt]

\* start_monitoring's first run: `await self.schedule_daily_report()`.
SchedStart ==
  /\ sched.pc = "new"
  /\ sched' = NextSleep(now, config)
  /\ UNCHANGED <<vClock, vConfig, vHealth, vLock, rc, vConn, vCache, pushes, vHC>>

\* The sleep ends.  After the 3600 s sleep of the ValueError branch the loop
\* continues; after the other two sleeps _push_status runs up to its
\* send_message.
SchedWake ==
  /\ sched.pc = "sleep"
  /\ now = sched.wake
  /\ IF sched.push
     THEN LET r == GetServerStatus(cache, config, now)
          IN  /\ cache' = r.cache
              /\ roundTrips' = roundTrips + r.trips
              /\ pushes' = pushes + 1
              /\ sched' = [sched EXCEPT !.pc = "push"]
     ELSE /\ sched' = NextSleep(now, config)
          /\ UNCHANGED <<cache, roundTrips, pushes>>
  /\ UNCHANGED <<vClock, vConfig, vHealth, vLock, rc, vConn, nCmd, vHC>>

\* send_message returns; the loop starts over.
SchedPushSent ==
  /\ sched.pc = "push"
  /\ sched' = NextSleep(now, config)
  /\ UNCHANGED <<vClock, vConfig, vHealth, vLock, rc, vConn, vCache, pushes, vHC>>

(* ---------------------------------------------------------------------- *)
(* server_set                                                              *)
(* ---------------------------------------------------------------------- *)
\* The value server_set stores for key k and argument v: int(value) for the
\* port; for the key, the path of the file mkstemp just created, which is
\* no path handed out before (paths are numbered by the call; 0: unset).
StoredValue(k, v, n) ==
  CASE k = "port" -> ParsePort(v)
    [] k = "key" -> n + 1
    [] OTHER -> v

\* valid_keys
RealKey(k) ==
  CASE k = "ip" -> "server_ip"
    [] k = "port" -> "ssh_port"
    [] k = "user" -> "ssh_username"
    [] k = "pwd" -> "ssh_password"
    [] k = "key" -> "ssh_key_path"
    [] OTHER -> "report_time"

\* server_set up to `yield event.plain_result("已更新 ...")`: old_digest is
\* read from self._current_config_digest, the configuration is written and
\* saved, and the generator is suspended while the reply is delivered.
\* The record of the suspended call holds its local old_digest and, for the
\* claims, the digest before and after its write and whether it started
\* with no other call suspended.
ServerSetOf(args) ==
  /\ nSet < MaxSets
  /\ \E a \in args :
       /\ ~(a[1] = "port" /\ ParsePort(a[2]) = 0)
       /\ LET new == [config EXCEPT ![RealKey(a[1])] = StoredValue(a[1], a[2], nSet)]
          IN  /\ config' = new
              /\ sets' = sets \cup
                   {[id |-> nSet + 1, old_digest |-> current_config_digest,
                     before |-> DigestOf(config), after |-> DigestOf(new),
                     alone |-> sets = {}]}
  /\ nSet' = nSet + 1
  /\ UNCHANGED <<vClock, current_config_digest, nSched, vHealth, vLock, rc, vConn,
                 vCache, vSched, vHC>>

ServerSet == ServerSetOf(SetArgs)

\* server_set with a port that is no integer: "端口必须是整数", nothing written.
ServerSetBadPort ==
  /\ nCmd < MaxCmds
  /\ \E a \in SetArgs : a[1] = "port" /\ ParsePort(a[2]) = 0
  /\ nCmd' = nCmd + 1
  /\ UNCHANGED <<vClock, vConfig, vHealth, vLock, rc, vConn, cache, roundTrips,
                 vSched, vHC>>

\* `if self._digest_config() != old_digest`
DigestChanged(cfg, old) == DigestOf(cfg) # old

\* A task of _on_config_changed: where it is suspended, its locals (ip,
\* ping_ok; attempts and start of _connect_with_retry; the conn_kwargs of
\* the connect in flight, as kw; the end of its sleep or connect timeout, as
\* wake), the _ssh_conn calls it made and how _connect_with_retry returned.
\* trig is the digest of the configuration when the task was created.
\* Locals that are dead where the task is suspended are held at these values.
NewTask ==
  [pc |-> "created", ip |-> "", ping_ok |-> FALSE, attempts |-> 0, start |-> 0,
   wake |-> 0, kw |-> <<>>, made |-> 0, res |-> "none", trig |-> <<>>]
NoTask == [NewTask EXCEPT !.pc = "idle"]
Returned(r, res, attempts) ==
  [NewTask EXCEPT !.pc = "result", !.res = res, !.attempts = attempts,
                  !.made = r.made]

\* server_set resumed after its yield: the digest comparison and
\* asyncio.create_task(self._on_config_changed(event)).
ServerSetResume ==
  \E s \in sets :
    /\ sets' = sets \ {s}
    /\ IF DigestChanged(config, s.old_digest)
       THEN /\ rc' = [rc EXCEPT ![s.id] = [NewTask EXCEPT !.trig = DigestOf(config)]]
            /\ nSched' = nSched + 1
       ELSE UNCHANGED <<rc, nSched>>
    /\ UNCHANGED <<vClock, config, current_config_digest, nSet, vHealth, vLock,
                   vConn, vCache, vSched, vHC>>

(* ---------------------------------------------------------------------- *)
(* _on_config_changed, _ping, _connect_with_retry, _ssh_conn               *)
(* ---------------------------------------------------------------------- *)
Tasks == 1..MaxSets

\* asyncio.Lock.release: the first waiter, if any, is the next holder.
ReleaseLock ==
  /\ lockHolder' = IF lockWaiters = <<>> THEN 0 ELSE Head(lockWaiters)
  /\ lockWaiters' = IF lockWaiters = <<>> THEN <<>> ELSE Tail(lockWaiters)

\* The first lines under the lock: `ip = self.config.get("server_ip")`,
\* `if not ip: return`, then the await of _ping.
UnderLock(i) ==
  IF config.server_ip = ""
  THEN /\ rc' = [rc EXCEPT ![i].pc = "done"]
       /\ ReleaseLock
  ELSE /\ rc' = [rc EXCEPT ![i].pc = "ping", ![i].ip = config.server_ip]
       /\ UNCHANGED lockWaiters
       /\ lockHolder' = i

\* The lock taken whoever holds it.
LockFreeAlways(h, w) == TRUE

\* asyncio.Lock.acquire takes the lock at once when it is not locked and
\* nobody waits for it; otherwise the caller queues.
LockFree(h, w) == h = 0 /\ w = <<>>

\* The task's first run: `async with self._reconnect_lock`.
RcStart(i) ==
  /\ rc[i].pc = "created"
  /\ IF LockFree(lockHolder, lockWaiters)
     THEN UnderLock(i)
     ELSE /\ rc' = [rc EXCEPT ![i].pc = "wait"]
          /\ lockWaiters' = Append(lockWaiters, i)
          /\ UNCHANGED lockHolder
  /\ UNCHANGED <<vClock, vConfig, vHealth, vConn, vCache, vSched, vHC>>

\* A waiter that was handed the lock runs on.
RcLocked(i) ==
  /\ rc[i].pc = "wait"
  /\ lockHolder = i
  /\ UnderLock(i)
  /\ UNCHANGED <<vClock, vConfig, vHealth, vConn, vCache, vSched, vHC>>

\* _ping returns (True, rtt) or (False, 0.0); event.send of the ping line.
RcPingDone(i) ==
  /\ rc[i].pc = "ping"
  /\ \E ok \in BOOLEAN : rc' = [rc EXCEPT ![i].pc = "pingmsg", ![i].ping_ok = ok]
  /\ UNCHANGED <<vClock, vConfig, vHealth, vLock, vConn, vCache, vSched, vHC>>

\* The loop test taken one failure too far.
LoopContinuesOffByOne(attempts, start, t) ==
  attempts <= MaxAttempts /\ (t - start) < RetryBudget

\* `while attempts < 4 and (datetime.now() - start) < timedelta(seconds=120)`
LoopContinues(attempts, start, t) ==
  attempts < MaxAttempts /\ (t - start) < RetryBudget

\* The failure leaving the flag as it was.
FailureFlagKept(c) == c

\* `self.connected = False` of _connect_with_retry, on PermissionDenied and
\* after the loop.
FailureFlag(c) == FALSE

\* `if key and os.path.isfile(key)` / `elif pwd`, on the conn_kwargs kw:
\* a client key or a password is passed to asyncssh.connect.  A key path
\* set by server_set names the file it has just written.
HasCredentials(kw) == kw[5] # 0 \/ kw[4] # ""

\* The handle never taken for open.
HandleOpenNever(cs, h) == FALSE

\* `if self._ssh and not self._ssh.is_closing()`
HandleOpen(cs, h) == h # 0 /\ cs[h].open

\* _connect_with_retry from its loop test, with `attempts` failures so far,
\* to its next suspension: the loop ends (connected = False, failure), or
\* _ssh_conn returns the open handle at once (success), or _ssh_conn builds
\* conn_kwargs from the configuration and awaits asyncssh.connect.
LoopStep(i, attempts, start) ==
  IF ~LoopContinues(attempts, start, now)
  THEN /\ rc' = [rc EXCEPT ![i] = Returned(rc[i], "exhausted", attempts)]
       /\ connected' = FailureFlag(connected)
       /\ UNCHANGED <<last_success, alertsSinceSuccess>>
  ELSE IF HandleOpen(conns, ssh)
  THEN /\ rc' = [rc EXCEPT ![i] =
                         Returned([rc[i] EXCEPT !.made = @ + 1], "ok", attempts)]
       /\ connected' = TRUE
       /\ last_success' = SuccessStamp(last_success, now)
       /\ alertsSinceSuccess' = 0
  ELSE /\ rc' = [rc EXCEPT ![i].pc = "connecting", ![i].attempts = attempts,
                           ![i].start = start, ![i].made = @ + 1,
                           ![i].ip = "", ![i].ping_ok = FALSE,
                           ![i].kw = DigestOf(config),
                           ![i].wake = now + ConnectTimeout]
       /\ UNCHANGED vHealth

\* The probe's answer ignored.
ReachableWhatever(ping_ok) == TRUE

\* `if not ping_ok: ... return`
Reachable(ping_ok) == ping_ok

\* event.send of the ping line returns.  Unreachable: the second message
\* is sent.  Reachable: _connect_with_retry starts (attempts = 0, start = now).
RcPingMsgSent(i) ==
  /\ rc[i].pc = "pingmsg"
  /\ IF Reachable(rc[i].ping_ok)
     THEN LoopStep(i, 0, now)
     ELSE /\ rc' = [rc EXCEPT ![i] = [NewTask EXCEPT !.pc = "unreach"]]
          /\ UNCHANGED vHealth
  /\ UNCHANGED <<vClock, vConfig, vLock, vConn, vCache, vSched, vHC>>

\* "网络不可达" was sent: return, leaving the lock.
RcUnreachSent(i) ==
  /\ rc[i].pc = "unreach"
  /\ rc' = [rc EXCEPT ![i] = [NewTask EXCEPT !.pc = "done"]]
  /\ ReleaseLock
  /\ UNCHANGED <<vClock, vConfig, vHealth, vConn, vCache, vSched, vHC>>

\* asyncssh.connect returns a connection (self._ssh is set, then connected
\* and last_success), or raises PermissionDenied (connected = False, return),
\* or raises TimeoutError, OSError or another exception (attempts += 1 and
\* asyncio.sleep(15)).  connect_timeout ends the await by rc[i].wake.
RcConnectDone(i) ==
  /\ rc[i].pc = "connecting"
  /\ \E outcome \in {"ok", "denied", "error"} :
       CASE outcome = "ok" ->
              /\ conns' = Append(conns, [open |-> TRUE, cfg |-> rc[i].kw])
              /\ ssh' = Len(conns) + 1
              /\ connected' = TRUE
              /\ last_success' = SuccessStamp(last_success, now)
              /\ alertsSinceSuccess' = 0
              /\ rc' = [rc EXCEPT ![i] = Returned(rc[i], "ok", rc[i].attempts)]
         [] outcome = "denied" ->
              /\ connected' = FailureFlag(connected)
              /\ rc' = [rc EXCEPT ![i] = Returned(rc[i], "denied", rc[i].attempts)]
              /\ UNCHANGED <<conns, ssh, last_success, alertsSinceSuccess>>
         [] OTHER ->
              /\ rc' = [rc EXCEPT ![i].pc = "backoff", ![i].attempts = @ + 1,
                                  ![i].kw = <<>>, ![i].wake = now + RetryDelay]
              /\ UNCHANGED <<conns, ssh, vHealth>>
  /\ UNCHANGED <<vClock, vConfig, vLock, drops, vCache, vSched, vHC>>

\* asyncio.sleep(15) ends: back to the loop test.
RcBackoffDone(i) ==
  /\ rc[i].pc = "backoff"
  /\ now = rc[i].wake
  /\ LoopStep(i, rc[i].attempts, rc[i].start)
  /\ UNCHANGED <<vClock, vConfig, vLock, vConn, vCache, vSched, vHC>>

\* event.send(msg) returns; the `async with` block ends.
RcResultSent(i) ==
  /\ rc[i].pc = "result"
  /\ rc' = [rc EXCEPT ![i].pc = "done"]
  /\ ReleaseLock
  /\ UNCHANGED <<vClock, vConfig, vHealth, vConn, vCache, vSched, vHC>>

\* The network or the server closes a connection: is_closing() turns True.
ConnDrop ==
  /\ drops < MaxDrops
  /\ \E k \in 1..Len(conns) :
       /\ conns[k].open
       /\ conns' = [conns EXCEPT ![k].open = FALSE]
  /\ drops' = drops + 1
  /\ UNCHANGED <<vClock, vConfig, vHealth, vLock, rc, ssh, vCache, vSched, vHC>>

(* ---------------------------------------------------------------------- *)
(* schedule_health_check                                                   *)
(* ---------------------------------------------------------------------- *)
\* The grace test with >= for >.
ShouldAlertAtGrace(c, ls, t) == c /\ ls # NoTime /\ (t - ls) >= GraceSeconds

\* `self.connected and self.last_success and
\*  (datetime.now() - self.last_success).total_seconds() > 1200`
ShouldAlert(c, ls, t) == c /\ ls # NoTime /\ (t - ls) > GraceSeconds

\* asyncio.sleep(300) ends; get_server_status (which does not suspend) and
\* the branch on its result, up to the await of send_message or the next
\* sleep.
HCPoll ==
  /\ hc.pc = "sleep"
  /\ now = hc.wake
  /\ polls < MaxPolls
  /\ LET r == GetServerStatus(cache, config, now)
         alert == r.status = NoStatus /\ ShouldAlert(connected, last_success, now)
     IN  /\ cache' = r.cache
         /\ roundTrips' = roundTrips + r.trips
         /\ IF r.status # NoStatus
            THEN /\ connected' = TRUE
                 /\ last_success' = SuccessStamp(last_success, now)
                 /\ alertsSinceSuccess' = 0
                 /\ sampled' = TRUE
                 /\ hc' = [pc |-> "sleep", wake |-> now + HealthInterval]
                 /\ UNCHANGED alerts
            ELSE IF alert
            THEN /\ alerts' = alerts + 1
                 /\ alertsSinceSuccess' = alertsSinceSuccess + 1
                 /\ hc' = [pc |-> "alerting", wake |-> now]
                 /\ UNCHANGED <<connected, last_success, sampled>>
            ELSE /\ hc' = [pc |-> "sleep", wake |-> now + HealthInterval]
                 /\ UNCHANGED <<vHealth, alerts, sampled>>
  /\ polls' = polls + 1
  /\ UNCHANGED <<vClock, vConfig, vLock, rc, vConn, nCmd, vSched>>

\* The alert sent without clearing the flag.
AlertFlipForgotten(c) == c

\* `self.connected = False` after the alert
AlertFlip(c) == FALSE

\* send_message of the alert returns: the flag is cleared, next sleep.

HCAlertSent ==
  /\ hc.pc = "alerting"
  /\ connected' = AlertFlip(connected)
  /\ hc' = [pc |-> "sleep", wake |-> now + HealthInterval]
  /\ UNCHANGED <<vClock, vConfig, last_success, alertsSinceSuccess, vLock, rc,
                 vConn, vCache, vSched, polls, alerts, sampled>>

(* ---------------------------------------------------------------------- *)
(* Time                                                                    *)
(* ---------------------------------------------------------------------- *)
Horizon == MaxDays * DaySeconds

\* The times at which a sleep or a connect timeout ends.
Timers ==
  (IF sched.pc = "sleep" THEN {sched.wake} ELSE {})
    \cup (IF hc.pc = "sleep" THEN {hc.wake} ELSE {})
    \cup {rc[i].wake : i \in {j \in Tasks : rc[j].pc \in {"connecting", "backoff"}}}

\* The clock moves by d seconds, not past the end of a sleep or timeout.
TickBy(steps) ==
  /\ ticks < MaxTicks
  /\ \E d \in steps :
       /\ now + d <= Horizon
       /\ \A w \in Timers : now + d <= w
       /\ now' = now + d
  /\ ticks' = ticks + 1
  /\ UNCHANGED <<started, vConfig, vHealth, vLock, rc, vConn, vCache, vSched, vHC>>

\* The clock moves to the end of the next sleep or timeout.
TickTimer ==
  /\ Timers # {}
  /\ LET w == CHOOSE x \in Timers : \A y \in Timers : x <= y
     IN  /\ now < w
         /\ w <= Horizon
         /\ now' = w
  /\ UNCHANGED <<ticks, started, vConfig, vHealth, vLock, rc, vConn, vCache, vSched, vHC>>

(* ---------------------------------------------------------------------- *)
(* The plugin after __init__                                               *)
(* ---------------------------------------------------------------------- *)
\* The configuration handed to __init__.
InitConfigs(ips, rts) ==
  {[server_ip |-> ip, ssh_port |-> 22, ssh_username |-> "u1",
    ssh_password |-> "p1", ssh_key_path |-> 0, report_time |-> rt] :
      ip \in ips, rt \in rts}

\* A configuration whose ssh_password is empty and whose ssh_key_path is
\* unset, as before any credential was entered.
NoCredentials(c) == [c EXCEPT !.ssh_password = "", !.ssh_key_path = 0]

\* _load_cache: the cache file is absent or unreadable (empty cache), or
\* holds an entry for h1 whose "ts" is whatever the file says, given here
\* as an offset from the clock at the start (an offset above 0: the file was
\* written under another clock setting).
CacheFiles(t, offsets) ==
  {[k \in CacheKeys |-> NoEntry]} \cup
  {[k \in CacheKeys |->
      IF k = "h1" THEN [has |-> TRUE, ts |-> t + o, status |-> "up"] ELSE NoEntry] :
        o \in offsets}

\* __init__: no success yet, not connected, the lock free, the digest of
\* the configuration as handed in, no connection.
InitCommon ==
  /\ ticks = 0
  /\ started = now
  /\ sets = {}
  /\ nCmd = 0
  /\ connected = FALSE
  /\ last_success = NoTime
  /\ alertsSinceSuccess = 0
  /\ lockHolder = 0
  /\ lockWaiters = <<>>
  /\ conns = <<>>
  /\ ssh = 0
  /\ drops = 0
  /\ roundTrips = 0
  /\ pushes = 0
  /\ polls = 0
  /\ alerts = 0
  /\ sampled = FALSE

\* No server_set call yet.
InitNoSet ==
  /\ current_config_digest = DigestOf(config)
  /\ nSet = 0
  /\ nSched = 0
  /\ rc = [i \in Tasks |-> NoTask]

Reconnect ==
  \E i \in Tasks :
    \/ RcStart(i)
    \/ RcLocked(i)
    \/ RcPingDone(i)
    \/ RcPingMsgSent(i)
    \/ RcUnreachSent(i)
    \/ RcConnectDone(i)
    \/ RcBackoffDone(i)
    \/ RcResultSent(i)

(* ---------------------------------------------------------------------- *)
(* Spec: the monitoring task and the status commands                       *)
(* ---------------------------------------------------------------------- *)
\* Times of day at which the plugin is constructed: 08:00:00, 09:30:00,
\* 23:59:59.
StartTimes == {8 * HourSeconds, 9 * HourSeconds + 30 * MinuteSeconds, DaySeconds - 1}

\* The task of start_monitoring is created.  start_monitoring awaits
\* schedule_daily_report, whose `while True` has no exit, before it would
\* call schedule_health_check: no step starts the health check (hc stays
\* "off").  The configuration is changed here in report_time only, which
\* starts no reconnect sequence; the reconnect sequences, which share no
\* state with this task, are in SpecConn.
Init ==
  /\ now \in StartTimes
  /\ config \in InitConfigs({"h1"}, ReportTimes)
  /\ cache \in CacheFiles(now, {0 - 59})
  /\ InitCommon
  /\ InitNoSet
  /\ sched = [SchedOff EXCEPT !.pc = "new"]
  /\ hc = [pc |-> "off", wake |-> 0]

MainSteps == {1, 2}
TickMain == TickBy(MainSteps)
ServerSetTime == ServerSetOf({"report_time"} \X ReportTimes)

Next ==
  \/ SchedStart
  \/ SchedWake
  \/ SchedPushSent
  \/ ServerStatus
  \/ ServerPush
  \/ ServerSetTime
  \/ ServerSetResume
  \/ TickMain
  \/ TickTimer

Spec == Init /\ [][Next]_vars

(* ---------------------------------------------------------------------- *)
(* SpecConn: server_set and the reconnect sequences                        *)
(* ---------------------------------------------------------------------- *)
InitConn ==
  /\ now = 0
  /\ config \in InitConfigs({"", "h1"}, {<<9, 0>>})
                 \cup {NoCredentials(c) : c \in InitConfigs({"h1"}, {<<9, 0>>})}
  /\ cache \in CacheFiles(now, {})
  /\ InitCommon
  /\ InitNoSet
  /\ sched = SchedOff
  /\ hc = [pc |-> "off", wake |-> 0]

\* The clock moves here only to the end of a connect timeout or a retry
\* sleep: a connect attempt ends at once or at its timeout.
NextConn ==
  \/ ServerStatus
  \/ ServerPush
  \/ ServerSet
  \/ ServerSetBadPort
  \/ ServerSetResume
  \/ Reconnect
  \/ ConnDrop
  \/ TickTimer

SpecConn == InitConn /\ [][NextConn]_vars

(* ---------------------------------------------------------------------- *)
(* SpecHC: schedule_health_check run as a task                             *)
(* ---------------------------------------------------------------------- *)
\* The health check loop as it behaves once called: the state right after
\* schedule_health_check was entered at `now` and began its first sleep,
\* with the reconnect sequences that write the state it reads.
InitHC ==
  /\ now = 0
  /\ config \in InitConfigs({"h1"}, {<<9, 0>>})
  /\ cache \in CacheFiles(now, {HealthInterval})
  /\ InitCommon
  /\ InitNoSet
  /\ sched = SchedOff
  /\ hc = [pc |-> "sleep", wake |-> now + HealthInterval]

ServerSetHost == ServerSetOf({"ip"} \X Hosts)

NextHC ==
  \/ HCPoll
  \/ HCAlertSent
  \/ ServerSetHost
  \/ ServerSetResume
  \/ Reconnect
  \/ ConnDrop
  \/ TickTimer

SpecHC == InitHC /\ [][NextHC]_vars

(* ---------------------------------------------------------------------- *)
(* SpecRetry: the reconnect sequences alone                                *)
(* ---------------------------------------------------------------------- *)
\* The state after server_set calls that changed the port from 22 have
\* created their _on_config_changed tasks and none of them has run yet.
\* The clock moves freely, so a connect attempt takes any time up to its
\* timeout.
InitRetry ==
  /\ now = 0
  /\ config \in {[c EXCEPT !.ssh_port = 2222] : c \in InitConfigs({"", "h1"}, {<<9, 0>>})}
  /\ cache \in CacheFiles(now, {})
  /\ InitCommon
  /\ current_config_digest = DigestOf([config EXCEPT !.ssh_port = 22])
  /\ nSet = MaxSets
  /\ nSched = MaxSets
  /\ rc = [i \in Tasks |-> [NewTask EXCEPT !.trig = DigestOf(config)]]
  /\ sched = SchedOff
  /\ hc = [pc |-> "off", wake |-> 0]

RetrySteps == {1, 5}
TickRetry == TickBy(RetrySteps)

NextRetry ==
  \/ Reconnect
  \/ ConnDrop
  \/ TickRetry
  \/ TickTimer

SpecRetry == InitRetry /\ [][NextRetry]_vars

(* ====================================================================== *)
(* Claims                                                                  *)
(* ====================================================================== *)
NowSecs(t) == Hour(t) * HourSeconds + Minute(t) * MinuteSeconds + Second(t)
TargetSecs(rt) == rt[1] * HourSeconds + rt[2] * MinuteSeconds

\* Seconds from time t to the next occurrence of the time of day rt: today's
\* if it is still ahead, tomorrow's otherwise.
SecondsUntilNext(t, rt) ==
  IF NowSecs(t) < TargetSecs(rt)
  THEN TargetSecs(rt) - NowSecs(t)
  ELSE TargetSecs(rt) + DaySeconds - NowSecs(t)

C2_HealthPollsStart == now > started + HealthInterval => polls >= 1

\* C3 (SpecHC): an alert is sent only while connected is true and no alert
\* has been sent since a success (a non-null sample or a successful connect)
\* last set connected to true.
C3_OncePerEpisode ==
  [][alerts' = alerts + 1 => (connected /\ alertsSinceSuccess = 0)]_vars

\* Two alerts were sent, the second after a reconnect success re-armed it.
C3_Witness == alerts = 2 /\ alertsSinceSuccess = 1 /\ hc.pc = "alerting"

\* C4 (SpecHC): the poll that sends an alert got a null status, found
\* connected true and last_success set, and came more than 1200 s after
\* last_success.
C4_AlertOnlyAfterGrace ==
  [][alerts' = alerts + 1 =>
       (/\ GetServerStatus(cache, config, now).status = NoStatus
        /\ connected
        /\ last_success # NoTime
        /\ now - last_success > GraceSeconds)]_vars

\* A poll has just failed one interval after a success, and sent no alert.
C4_Witness ==
  /\ polls >= 1
  /\ hc = [pc |-> "sleep", wake |-> now + HealthInterval]
  /\ GetServerStatus(cache, config, now).status = NoStatus
  /\ connected
  /\ last_success # NoTime
  /\ now - last_success = HealthInterval
  /\ alerts = 0

\* C5 (Spec): the delay the report loop sleeps before a push is the number
\* of seconds from the moment it was computed to the next occurrence of the
\* report time it read.
C5_DelayUntilNextOccurrence ==
  (sched.pc = "sleep" /\ sched.push)
    => sched.delay = SecondsUntilNext(sched.wake - sched.delay, sched.target)

\* C6 (Spec): with report_time never changed, every push of the report loop
\* starts at the configured time of day.
C6_PushAtReportTime ==
  [][(pushes' = pushes + 1 /\ nSet = 0)
       => NowSecs(now) = TargetSecs(config.report_time)]_vars

\* C7 (Spec): a status or push command issued less than 60 s after the
\* capture time of the host's cache entry runs no remote command; one
\* issued 61 s or more after it runs one.
C7_CacheWindow ==
  [][nCmd' = nCmd + 1 =>
       LET e == cache[config.server_ip]
       IN  /\ (e.has /\ now - e.ts < CacheTTL) => roundTrips' = roundTrips
           /\ (e.has /\ now - e.ts >= CacheTTL + 1) => roundTrips' = roundTrips + 1]_vars

\* C8 (SpecRetry): _connect_with_retry calls _ssh_conn at most 4 times; when
\* it gives up after transient errors it has made exactly 4 calls, all
\* failed; after an authentication failure (as after any return) it makes
\* no further call.
C8_AtMostFourAttempts ==
  /\ [](\A i \in Tasks :
          /\ rc[i].made <= MaxAttempts
          /\ rc[i].res = "exhausted" => (rc[i].made = MaxAttempts /\ rc[i].attempts = MaxAttempts)
          /\ rc[i].res = "denied" => rc[i].made = rc[i].attempts + 1)
  /\ [][\A i \in Tasks : rc[i].res # "none" => rc'[i].made = rc[i].made]_vars

\* Four connects in a row failed with a transient error.
C8_Witness == \E i \in Tasks : rc[i].res = "exhausted" /\ rc[i].made = MaxAttempts

\* C9 (SpecConn): a server_set call that runs from start to end with no
\* other call suspended meanwhile (the digest is still as it left it) creates a reconnect task exactly when its
\* own write changed the digest (digest after # digest before), and then
\* exactly one.
C9_ScheduleIffDigestChanged ==
  [][\A s \in sets :
       (s \notin sets' /\ s.alone /\ sets = {s} /\ DigestOf(config) = s.after) =>
         /\ nSched' \in {nSched, nSched + 1}
         /\ (nSched' = nSched + 1) <=> (s.after # s.before)]_vars

\* C10 (SpecConn): when _connect_with_retry returns success in a reconnect
\* sequence, and the configuration is the one whose change created the
\* sequence, self._ssh was opened with the connection fields of that
\* configuration.
C10_SessionMatchesConfig ==
  [][\A i \in Tasks :
       (rc[i].res # "ok" /\ rc'[i].res = "ok" /\ rc[i].trig = DigestOf(config))
         => (ssh' # 0 /\ conns'[ssh'].cfg = DigestOf(config'))]_vars

\* A task is inside the sequence from the start of its probe to the end of
\* its last message.
InSequence(i) ==
  rc[i].pc \in {"ping", "pingmsg", "unreach", "connecting", "backoff", "result"}

\* C11 (SpecRetry): at most one task is inside the reconnect sequence
\* (probe, connect-with-retry, result message), and that task holds the
\* reconnect lock for as long as it is inside.
C11_SequencesExclusive ==
  \A i \in Tasks :
    InSequence(i) =>
      /\ lockHolder = i
      /\ \A j \in Tasks : InSequence(j) => j = i

\* One task awaits its connect while another waits for the lock.
C11_Witness ==
  \E i, j \in Tasks :
    rc[i].pc = "connecting" /\ rc[j].pc = "wait" /\ lockWaiters = <<j>>

C13_OneLiveConnection ==
  \A k \in 1..Len(conns) : conns[k].open => k = ssh

\* A second connection was opened after the first one dropped and is the
\* one held, and status requests were served meanwhile.
C13_Witness ==
  /\ Len(conns) = 2
  /\ ssh = 2
  /\ conns[2].open
  /\ ~conns[1].open
  /\ nCmd = MaxCmds

\* C14 (SpecRetry): a sequence whose probe reported the host unreachable
\* sends its two messages and ends: it calls _ssh_conn never, returns no
\* connect result, and leaves connected, last_success, the handle and the
\* connections as they were.  A first _ssh_conn call, and a connect result,
\* come only from a sequence whose probe reported the host reachable.
C14_UnreachableStops ==
  [][\A i \in Tasks :
       /\ (rc'[i] # rc[i] /\ (rc[i].pc = "unreach"
                               \/ (rc[i].pc = "pingmsg" /\ ~rc[i].ping_ok))) =>
            /\ rc'[i].pc = (IF rc[i].pc = "pingmsg" THEN "unreach" ELSE "done")
            /\ rc'[i].made = 0
            /\ rc'[i].res = "none"
            /\ UNCHANGED <<connected, last_success, ssh, conns>>
       /\ (rc'[i].made > rc[i].made \/ rc'[i].res # rc[i].res) =>
            \/ rc[i].pc = "pingmsg" /\ rc[i].ping_ok
            \/ rc[i].pc \in {"connecting", "backoff"}]_vars

\* A sequence ended on an unreachable probe after an earlier one had
\* connected: the connection state and the handle are still those.
C14_Witness ==
  \E i, j \in Tasks :
    /\ rc[i].pc = "done" /\ rc[i].res = "none" /\ rc[i].made = 0
    /\ rc[j].pc = "done" /\ rc[j].res = "ok"
    /\ connected /\ ssh # 0 /\ conns[ssh].open

C17_ConnectResultEffect ==
  [][\A i \in Tasks :
       (rc[i].res = "none" /\ rc'[i].res # "none") =>
         IF rc'[i].res = "ok"
         THEN connected' /\ last_success' = now
         ELSE ~connected' /\ last_success' = last_success]_vars

\* A sequence has just failed after an earlier one succeeded: connected is
\* false and last_success is still the earlier time.
C17_Witness ==
  \E i \in Tasks :
    /\ rc[i].pc = "result"
    /\ rc[i].res \in {"exhausted", "denied"}
    /\ ~connected
    /\ last_success # NoTime
    /\ last_success < now

\* C18 (SpecRetry): the 15 s sleep of _connect_with_retry lies between two
\* attempts.  A failed attempt starts the sleep only when another attempt
\* is to follow (fewer than 4 have failed); the 4th failure returns the
\* failure at once.  The sleep lasts RetryDelay seconds.
C18_SleepOnlyBetweenAttempts ==
  [][\A i \in Tasks :
       /\ (rc[i].pc = "connecting" /\ rc'[i].pc = "backoff") =>
            (rc'[i].attempts < MaxAttempts /\ rc'[i].wake = now + RetryDelay)
       /\ (rc[i].pc = "backoff" /\ rc'[i].pc # "backoff") => now = rc[i].wake]_vars

\* C19 (SpecConn): no connection is attempted with a configuration that has
\* neither a password nor a key file: every asyncssh.connect in flight was
\* given a password or a client key.
C19_NoConnectWithoutCredentials ==
  \A i \in Tasks : rc[i].pc = "connecting" => HasCredentials(rc[i].kw)

\* C20 (SpecHC): in every state connected implies that last_success is set,
\* and no step moves last_success back or unsets it, whatever the health
\* check and the reconnect sequences do in between.
C20_ConnectedHasTimestamp ==
  /\ [](connected => last_success # NoTime)
  /\ [][/\ last_success' >= last_success
        /\ last_success # NoTime => last_success' # NoTime]_vars

\* A reconnect sequence has just succeeded after a health sample had: the
\* timestamp moved forward from the sample's time to now.
C20_Witness ==
  /\ sampled
  /\ connected
  /\ last_success = now
  /\ now > HealthInterval
  /\ \E i \in Tasks : rc[i].pc = "result" /\ rc[i].res = "ok"

====
